---- MODULE Spec2Model ----
(***************************************************************************)
(* quill: the Slack ingestion path (thread correlation, message queue) and *)
(* the BotService message pipeline (analyze, merge, detect references,     *)
(* route to a handler, document, reply).                                   *)
(*                                                                         *)
(* Spec        : handleEvents goroutines feeding the message channel.      *)
(* ProcessSpec : BotService.ProcessMessage calls, step by step.            *)
(***************************************************************************)
EXTENDS Integers, Sequences, FiniteSets, TLC

\* ------------------------------------------------------------------ bounds
MaxEvents == 4        \* socket events delivered in one run
MaxCalls == 2         \* ProcessMessage calls made by one worker
MaxClock == 1         \* seconds the wall clock may advance
MaxRefs == 2          \* references added to one message by AddReference calls
UintBits == 3         \* bits of the machine word modelled for uint
ScoreMargin == 2      \* confidences tried on each side of 0, 0.8 and 1, in hundredths

\* ------------------------------------------------------- program constants
ChanCap == 100            \* make(chan *domain.Message, 100)
MaxContentLength == 10000 \* MaxContentLength
HighConfidence == 80      \* 0.8, confidence scores are counted in hundredths
MinConfidence == 0        \* 0.0
MaxConfidence == 100      \* 1.0

\* -------------------------------------------------------------- value sets
Handlers == {"h1", "h2"}      \* handleEvents goroutines (one per ListenForMessages call)
Workers == {"w1", "w2"}       \* flows of control calling ProcessMessage
Markers == {"T1", "T2"}       \* Slack timestamps used as conversation markers
NoMarker == ""                \* msg.ThreadTimestamp == ""
NoID == 0                     \* the zero common.ID
NoHandler == ""

MessageTypeIdea == "idea"
MessageTypeDecision == "decision"
MessageTypeStatus == "status"
MessageTypeUnknown == "unknown"
MessageTypeInformation == "information"

validMessageTypes ==
    {MessageTypeIdea, MessageTypeDecision, MessageTypeStatus, MessageTypeUnknown}

\* The type the Slack client constructs messages with; its declaration is not
\* among the sources, the data model lists it as a legacy member of the enum.
legacyMessageTypes == {MessageTypeInformation}

MessageTypeIsValid(mt) == mt \in validMessageTypes \cup legacyMessageTypes

CategoryOperations == "operations"
CategoryDevelopment == "development"
CategoryProduct == "product"
CategoryQualityAssurance == "quality_assurance"
CategoryDataAnalysis == "data_analysis"
CategoryOther == "other"
CategoryUnknown == "unknown"

validCategories ==
    {CategoryOperations, CategoryDevelopment, CategoryProduct,
     CategoryQualityAssurance, CategoryDataAnalysis, CategoryOther,
     CategoryUnknown}

CategoryIsValid(c) == c \in validCategories

\* ------------------------------------------------------------ text, content
\* Text is a sequence of one-character strings.
RECURSIVE TrimLeft(_)
TrimLeft(s) ==
    IF s = <<>> THEN s
    ELSE IF Head(s) = " " THEN TrimLeft(Tail(s)) ELSE s

RECURSIVE TrimRight(_)
TrimRight(s) ==
    IF s = <<>> THEN s
    ELSE IF s[Len(s)] = " " THEN TrimRight(SubSeq(s, 1, Len(s) - 1)) ELSE s

TrimSpace(s) == TrimRight(TrimLeft(s))

ErrNone == ""
ErrEmptyContent == "content cannot be empty"
ErrInvalidSender == "invalid sender"
ErrNoContent == "message must have content"
ErrNoType == "message must have type"

NilContent == <<>>   \* a nil *MessageContent (a real content is never empty)

NewMessageContent(text) ==
    LET t == TrimSpace(text) IN
    IF t = <<>>
    THEN [err |-> ErrEmptyContent, text |-> NilContent]
    ELSE [err |-> ErrNone,
          text |-> IF Len(t) > MaxContentLength
                   THEN SubSeq(t, 1, MaxContentLength) ELSE t]

\* ------------------------------------------------------------------ Message
NoMessage ==
    [err |-> ErrNone, id |-> NoID, threadID |-> NoID, sender |-> "",
     content |-> NilContent, messageType |-> "", category |-> "",
     references |-> <<>>, timestamp |-> 0]

\* id is the value GenerateID returns inside the constructor, now is time.Now().
NewMessage(id, threadID, sender, content, messageType, category, references, now) ==
    IF sender = "" THEN [NoMessage EXCEPT !.err = ErrInvalidSender]
    ELSE IF content = NilContent THEN [NoMessage EXCEPT !.err = ErrNoContent]
    ELSE IF ~MessageTypeIsValid(messageType) THEN [NoMessage EXCEPT !.err = ErrNoType]
    ELSE [err |-> ErrNone, id |-> id, threadID |-> threadID, sender |-> sender,
          content |-> content, messageType |-> messageType,
          category |-> category, references |-> references, timestamp |-> now]

NilRef == "nil"      \* a nil *Reference

HasReferences(m) == Len(m.references) > 0

AddReferenceUnchecked(m, ref) == [m EXCEPT !.references = Append(m.references, ref)]

AddReference(m, ref) ==
    IF ref # NilRef
    THEN [m EXCEPT !.references = Append(m.references, ref)]
    ELSE m

RECURSIVE AddReferences(_, _)
AddReferences(m, refs) ==
    IF refs = <<>> THEN m
    ELSE AddReferences(AddReference(m, Head(refs)), Tail(refs))

UpdateCategoryIgnored(m, category) == m

UpdateCategoryUnchecked(m, category) == [m EXCEPT !.category = category]

UpdateCategory(m, category) ==
    IF CategoryIsValid(category) THEN [m EXCEPT !.category = category] ELSE m

VARIABLES
    \* --- Slack client
    threadMap,    \* c.threadMap: marker -> ThreadId, NoID when absent
    readers,      \* c.threadLock: number of read locks held
    writer,       \* c.threadLock: the goroutine holding the write lock
    messageCh,    \* c.messageCh
    nextID,       \* the next value of common.GenerateID
    ctxDone,      \* the context passed to ListenForMessages is cancelled
    pc,           \* where each handleEvents goroutine is
    ev,           \* the slack.MessageEvent it is processing
    tid,          \* its local threadID
    domainMsg,    \* the *domain.Message it has built
    nEvents,      \* socket events delivered so far
    resolved,     \* history: the ThreadId every event was given
    delivered,    \* history: messages taken from the channel, in order
    consumer,     \* the loop reading the channel: "running" or "stopped"
    \* --- BotService
    ppc,          \* where each ProcessMessage call is
    msg,          \* the *domain.Message it was given
    msg0,         \* history: that message as it was when the call began
    analysis,     \* the *MessageAnalysisResult of the call
    perr,         \* the error the call returns
    trace,        \* history: the steps and collaborator calls of the call
    base,         \* history: documents and replies of the message before the call
    stored,       \* document store: documents written, in order
    replies,      \* chat: replies sent, in order
    nCalls,       \* ProcessMessage calls begun by each worker
    clock,        \* wall clock, seconds
    \* --- domain objects in the hands of a caller
    object,       \* a *Message (NoMessage: nil)
    lastCall,     \* history: the last constructor or method call and its outcome
    milestones,   \* p.milestones of a Project
    milestoneCall,\* history: the last AddMilestone call and its outcome
    version,      \* a *DocumentVersion (NoVersion: nil)
    other,        \* a second *DocumentVersion: built, or returned by Increment
    versionCall,  \* history: the last DocumentVersion call
    mc,           \* a *MessageContent held by a caller (NilContent: nil)
    encoded,      \* the JSON its last MarshalJSON returned
    decoded       \* the outcome of the last UnmarshalJSON of that JSON

slackVars ==
    <<threadMap, readers, writer, messageCh, nextID, ctxDone, pc, ev, tid,
      domainMsg, nEvents, resolved, delivered, consumer>>
botVars ==
    <<ppc, msg, msg0, analysis, perr, trace, base, stored, replies, nCalls, clock>>
messageVars == <<object, lastCall>>
projectVars == <<milestones, milestoneCall>>
versionVars == <<version, other, versionCall>>
contentVars == <<mc, encoded, decoded>>
domainVars == <<messageVars, projectVars, versionVars, contentVars>>
vars == <<slackVars, botVars, domainVars>>

\* ========================================================== Slack client ==
Texts == {<<" ">>, <<" ", "a">>}    \* msg.Text: blank, and text that needs trimming

\* slack.MessageEvent, the fields processMessageEvent reads; a reply carries
\* the marker of its parent, which is not its own
MessageEvents ==
    {e \in [botID : {"", "B1"}, user : {"", "U1"}, ts : Markers,
            threadTS : {NoMarker} \cup Markers, text : Texts] :
       e.threadTS # e.ts}

\* what c.api.GetUserInfo answers
UserInfos == {[err |-> "lookup failed", name |-> ""],
              [err |-> ErrNone, name |-> ""],
              [err |-> ErrNone, name |-> "alice"]}

NoEvent == [ts |-> NoMarker, threadTS |-> NoMarker, text |-> <<>>, name |-> ""]

\* a goroutine waiting in threadLock.Lock() keeps new readers out
WriterPending == \E h \in Handlers : pc[h] = "lock"

\* the marker processMessageEvent registers a generated ThreadId under
RegisteredMarker(e) == IF e.threadTS # NoMarker THEN e.threadTS ELSE e.ts

\* where processMessageEvent goes once the map is written and unlocked
AfterRegister(e) == IF e.threadTS # NoMarker THEN "idle" ELSE "content"

\* what the read-locked lookup finds: a reply whose parent is registered
ParentKnown(e) == e.threadTS # NoMarker /\ threadMap[e.threadTS] # NoID

SlackInit ==
    /\ threadMap = [m \in Markers |-> NoID]
    /\ readers = 0
    /\ writer = NoHandler
    /\ messageCh = <<>>
    /\ nextID = 1
    /\ ctxDone = FALSE
    /\ pc = [h \in Handlers |-> "idle"]
    /\ ev = [h \in Handlers |-> NoEvent]
    /\ tid = [h \in Handlers |-> NoID]
    /\ domainMsg = [h \in Handlers |-> NoMessage]
    /\ nEvents = 0
    /\ resolved = {}
    /\ delivered = <<>>
    /\ consumer = "running"

\* processMessageEvent returns: the goroutine is back in the select of handleEvents
Return(h) ==
    /\ pc' = [pc EXCEPT ![h] = "idle"]
    /\ ev' = [ev EXCEPT ![h] = NoEvent]
    /\ tid' = [tid EXCEPT ![h] = NoID]
    /\ domainMsg' = [domainMsg EXCEPT ![h] = NoMessage]

\* handleEvents takes an event from c.socket.Events; processMessageEvent
\* drops bot and userless events and events whose user lookup fails.
\* The events come from the set events, the lookup answers from infos, and
\* at most limit events arrive.
ReceiveFrom(h, events, infos, limit) ==
    /\ pc[h] = "idle"
    /\ nEvents < limit
    /\ nEvents' = nEvents + 1
    /\ \E e \in events, info \in infos :
         IF e.botID # "" \/ e.user = "" \/ info.err # ErrNone
         THEN UNCHANGED <<pc, ev>>
         ELSE /\ pc' = [pc EXCEPT ![h] = "rlock"]
              /\ ev' = [ev EXCEPT ![h] =
                           [ts |-> e.ts, threadTS |-> e.threadTS,
                            text |-> e.text, name |-> info.name]]
    /\ UNCHANGED <<threadMap, readers, writer, messageCh, nextID, ctxDone, tid,
                   domainMsg, resolved, delivered, consumer, botVars,
                   domainVars>>

Receive(h) == ReceiveFrom(h, MessageEvents, UserInfos, MaxEvents)

\* a burst of root messages of one user, more than the channel holds
MaxBurst == ChanCap + 2

BurstEvents ==
    {e \in MessageEvents :
       /\ e.botID = "" /\ e.user = "U1"
       /\ e.ts = "T1" /\ e.threadTS = NoMarker
       /\ e.text = <<" ", "a">>}

BurstInfos == {info \in UserInfos : info.name # ""}

ReceiveBurst(h) == ReceiveFrom(h, BurstEvents, BurstInfos, MaxBurst)

\* c.threadLock.RLock() and the branch taken under the read lock: a reply with
\* a registered parent takes the parent's ThreadId and goes on, the read lock
\* still held; every other event gets a generated ThreadId.
RLock(h) ==
    /\ pc[h] = "rlock"
    /\ writer = NoHandler
    /\ ~WriterPending
    /\ readers' = readers + 1
    /\ IF ParentKnown(ev[h])
       THEN /\ tid' = [tid EXCEPT ![h] = threadMap[ev[h].threadTS]]
            /\ pc' = [pc EXCEPT ![h] = "content"]
            /\ UNCHANGED nextID
       ELSE /\ tid' = [tid EXCEPT ![h] = nextID]
            /\ nextID' = nextID + 1
            /\ pc' = [pc EXCEPT ![h] = "runlock"]
    /\ resolved' = resolved \cup
         {[ts |-> ev[h].ts, threadTS |-> ev[h].threadTS, id |-> tid'[h],
           known |-> ParentKnown(ev[h])]}
    /\ UNCHANGED <<threadMap, writer, messageCh, ctxDone, ev, domainMsg,
                   nEvents, delivered, consumer, botVars,
                   domainVars>>

\* c.threadLock.RUnlock()
RUnlock(h) ==
    /\ pc[h] = "runlock"
    /\ readers' = readers - 1
    /\ pc' = [pc EXCEPT ![h] = "lock"]
    /\ UNCHANGED <<threadMap, writer, messageCh, nextID, ctxDone, ev, tid,
                   domainMsg, nEvents, resolved, delivered, consumer, botVars,
                   domainVars>>

\* c.threadLock.Lock()
Lock(h) ==
    /\ pc[h] = "lock"
    /\ readers = 0
    /\ writer = NoHandler
    /\ writer' = h
    /\ pc' = [pc EXCEPT ![h] = "write"]
    /\ UNCHANGED <<threadMap, readers, messageCh, nextID, ctxDone, ev, tid,
                   domainMsg, nEvents, resolved, delivered, consumer, botVars,
                   domainVars>>

\* c.threadMap[...] = threadID; c.threadLock.Unlock(); a reply returns here
Register(h) ==
    /\ pc[h] = "write"
    /\ threadMap' = [threadMap EXCEPT ![RegisteredMarker(ev[h])] = tid[h]]
    /\ writer' = NoHandler
    /\ IF AfterRegister(ev[h]) = "idle"
       THEN Return(h)
       ELSE /\ pc' = [pc EXCEPT ![h] = AfterRegister(ev[h])]
            /\ UNCHANGED <<ev, tid, domainMsg>>
    /\ UNCHANGED <<readers, messageCh, nextID, ctxDone, nEvents, resolved,
                   delivered, consumer, botVars,
                   domainVars>>

\* domain.NewMessageContent and domain.NewMessage; either failing returns
CreateMessage(h) ==
    /\ pc[h] = "content"
    /\ LET content == NewMessageContent(ev[h].text)
           m == NewMessage(nextID, tid[h], ev[h].name, content.text,
                           MessageTypeInformation, CategoryOther, <<>>, clock)
       IN IF content.err # ErrNone
          THEN Return(h) /\ UNCHANGED nextID
          ELSE IF m.err # ErrNone
          THEN Return(h) /\ UNCHANGED nextID
          ELSE /\ domainMsg' = [domainMsg EXCEPT ![h] = m]
               /\ nextID' = nextID + 1
               /\ pc' = [pc EXCEPT ![h] = "send"]
               /\ UNCHANGED <<ev, tid>>
    /\ UNCHANGED <<threadMap, readers, writer, messageCh, ctxDone, nEvents,
                   resolved, delivered, consumer, botVars,
                   domainVars>>

\* a send on the buffered channel goes through while the buffer has room
CanSendAlways(ch) == TRUE

CanSend(ch) == Len(ch) < ChanCap

\* c.messageCh <- domainMsg
Send(h) ==
    /\ pc[h] = "send"
    /\ CanSend(messageCh)
    /\ messageCh' = Append(messageCh, domainMsg[h])
    /\ Return(h)
    /\ UNCHANGED <<threadMap, readers, writer, nextID, ctxDone, nEvents,
                   resolved, delivered, consumer, botVars,
                   domainVars>>

\* the context is cancelled
Cancel ==
    /\ ~ctxDone
    /\ ctxDone' = TRUE
    /\ UNCHANGED <<threadMap, readers, writer, messageCh, nextID, pc, ev, tid,
                   domainMsg, nEvents, resolved, delivered, consumer, botVars,
                   domainVars>>

\* handleEvents: case <-ctx.Done(): return
Stop(h) ==
    /\ pc[h] = "idle"
    /\ ctxDone
    /\ pc' = [pc EXCEPT ![h] = "stopped"]
    /\ UNCHANGED <<threadMap, readers, writer, messageCh, nextID, ctxDone, ev,
                   tid, domainMsg, nEvents, resolved, delivered, consumer, botVars,
                   domainVars>>

\* the reading loop: case msg := <-messageCh
Consume ==
    /\ consumer = "running"
    /\ messageCh # <<>>
    /\ delivered' = Append(delivered, Head(messageCh))
    /\ messageCh' = Tail(messageCh)
    /\ UNCHANGED <<threadMap, readers, writer, nextID, ctxDone, pc, ev, tid,
                   domainMsg, nEvents, resolved, consumer, botVars,
                   domainVars>>

\* the reading loop: case <-ctx.Done(): return
ConsumerStop ==
    /\ consumer = "running"
    /\ ctxDone
    /\ consumer' = "stopped"
    /\ UNCHANGED <<threadMap, readers, writer, messageCh, nextID, ctxDone, pc, ev,
                   tid, domainMsg, nEvents, resolved, delivered, botVars,
                   domainVars>>


\* ================================================ MessageAnalysisResult ==
ErrInvalidConfidenceScore == "confidence score must be between 0 and 1"
ErrInvalidAnalysisResult == "invalid analysis result"

NoAnalysis ==
    [err |-> ErrNone, messageType |-> "", category |-> "", references |-> <<>>,
     confidenceScore |-> 0, suggestedTags |-> <<>>]

NewMessageAnalysisResultOpenInterval(msgType, category, references, confidence, tags) ==
    IF confidence <= MinConfidence \/ confidence >= MaxConfidence
    THEN [NoAnalysis EXCEPT !.err = ErrInvalidConfidenceScore]
    ELSE IF ~(msgType \in validMessageTypes) \/ ~CategoryIsValid(category)
    THEN [NoAnalysis EXCEPT !.err = ErrInvalidAnalysisResult]
    ELSE [err |-> ErrNone, messageType |-> msgType, category |-> category,
          references |-> references, confidenceScore |-> confidence,
          suggestedTags |-> tags]

NewMessageAnalysisResult(msgType, category, references, confidence, tags) ==
    IF confidence < MinConfidence \/ confidence > MaxConfidence
    THEN [NoAnalysis EXCEPT !.err = ErrInvalidConfidenceScore]
    ELSE IF ~(msgType \in validMessageTypes) \/ ~CategoryIsValid(category)
    THEN [NoAnalysis EXCEPT !.err = ErrInvalidAnalysisResult]
    ELSE [err |-> ErrNone, messageType |-> msgType, category |-> category,
          references |-> references, confidenceScore |-> confidence,
          suggestedTags |-> tags]

IsHighConfidence(r) == r.confidenceScore >= HighConfidence

HasSuggestedTags(r) == Len(r.suggestedTags) > 0

\* ============================================================ BotService ==
\* what the collaborators are given and answer
SenderInputs == {"alice"}
TypeInputs == {MessageTypeIdea, MessageTypeInformation}
CategoryInputs == {CategoryOther, "invalid"}
ReferenceInputs == {<<>>, <<"doc:a">>}

OracleTypes == validMessageTypes \cup {"invalid"}
OracleCategories == {CategoryOperations, "invalid"}
OracleReferences == {<<>>, <<NilRef, "msg:b">>}
OracleConfidences == {50, 80, 101}
OracleTags == {<<>>, <<"t1", "t2">>}

\* every result AiAgentProvider.AnalyzeMessage can hand back
AnalysisResults ==
    {r \in {NewMessageAnalysisResult(t, c, refs, conf, tags) :
              t \in OracleTypes, c \in OracleCategories,
              refs \in OracleReferences, conf \in OracleConfidences,
              tags \in OracleTags} : r.err = ErrNone}

\* every list AiAgentProvider.DetectReferences can hand back
DetectedReferences == {<<>>, <<NilRef, "doc:c">>}

Outcomes == {ErrNone, "failed"}     \* a collaborator call succeeds or fails

\* ProcessMessage, the statements that decide what runs next
AfterAnalyzeSkipsMerge(err) == IF err # ErrNone THEN "done" ELSE "route"

AfterAnalyzeIgnoresError(err) == "merge"

AfterAnalyze(err) == IF err # ErrNone THEN "done" ELSE "merge"

AfterMergeAlwaysDetects(m) == "detect"

AfterMerge(m) == IF ~HasReferences(m) THEN "detect" ELSE "route"

AfterDetectIgnoresError(err) == "route"

AfterDetect(err) == IF err # ErrNone THEN "done" ELSE "route"

\* s.handlers[analysis.MessageType()]
HandlerFor(mt) ==
    CASE mt = MessageTypeIdea -> "ideaHandler"
      [] mt = MessageTypeDecision -> "decisionHandler"
      [] mt = MessageTypeStatus -> "statusHandler"
      [] mt = MessageTypeUnknown -> "unknownHandler"
      [] OTHER -> "nil"

\* only unknownHandler implements SuggestionsHandler
IsSuggestionsHandler(handler) == handler = "unknownHandler"

ShouldSuggestAnyConfidence(a) == HasSuggestedTags(a)

\* unknownHandler.HandleWithAnalysis replies only to these
ShouldSuggest(a) == IsHighConfidence(a) /\ HasSuggestedTags(a)

\* what the handler does first
AfterRoute(handler, a) ==
    IF IsSuggestionsHandler(handler)
    THEN IF ShouldSuggest(a) THEN "reply" ELSE "done"
    ELSE "generate"

\* CreateDocumentation
AfterGenerateIgnoresError(err) == "store"

AfterGenerate(err) == IF err # ErrNone THEN "done" ELSE "store"

AfterStoreRetries(err) == IF err # ErrNone THEN "store" ELSE "reply"

AfterStore(err) == IF err # ErrNone THEN "done" ELSE "reply"

ReplyTemplateOfIdea(handler) == "Captured idea in category"

\* the first words of each handler's reply
ReplyTemplate(handler) ==
    CASE handler = "ideaHandler" -> "Captured idea in category"
      [] handler = "decisionHandler" -> "Recorded decision in category"
      [] handler = "statusHandler" -> "Logged status update in category"
      [] OTHER -> "Consider adding these tags"

\* the reply a handler builds: linked = 0 stands for no "Linked to" line
ReplyText(handler, m, a) ==
    IF IsSuggestionsHandler(handler)
    THEN [to |-> m.id, template |-> ReplyTemplate(handler), category |-> "",
          linked |-> 0, tags |-> a.suggestedTags]
    ELSE [to |-> m.id, template |-> ReplyTemplate(handler),
          category |-> m.category,
          linked |-> IF HasReferences(m) THEN Len(m.references) ELSE 0,
          tags |-> <<>>]

\* generatePath: docs/<category>/<type>-<timestamp>.md
generatePath(msgType, category, now) ==
    [dir |-> category, type |-> msgType, timestamp |-> now]

\* the document CreateDocumentation stores for a message
Document(m, now) ==
    [path |-> generatePath(m.messageType, m.category, now),
     type |-> m.messageType, category |-> m.category,
     references |-> m.references, of |-> m.id]

StoreDocumentReplaces(docs, doc) == <<doc>>

StoreDocumentOnce(docs, doc) ==
    IF \E i \in DOMAIN docs : docs[i].of = doc.of THEN docs ELSE Append(docs, doc)

\* s.docStore.StoreDocument: the store keeps every document it is given
StoreDocumentWrite(docs, doc) == Append(docs, doc)

\* documents stored for, and replies sent to, the message with this id
DocumentsOf(id) == Cardinality({i \in DOMAIN stored : stored[i].of = id})

RepliesTo(id) == Cardinality({i \in DOMAIN replies : replies[i].to = id})

BotInit ==
    /\ ppc = [w \in Workers |-> "idle"]
    /\ msg = [w \in Workers |-> NoMessage]
    /\ msg0 = [w \in Workers |-> NoMessage]
    /\ analysis = [w \in Workers |-> NoAnalysis]
    /\ perr = [w \in Workers |-> ErrNone]
    /\ trace = [w \in Workers |-> <<>>]
    /\ base = [w \in Workers |-> [stored |-> 0, replies |-> 0]]
    /\ stored = <<>>
    /\ replies = <<>>
    /\ nCalls = [w \in Workers |-> 0]
    /\ clock = 0

Log(w, call, err) ==
    trace' = [trace EXCEPT ![w] = Append(trace[w], [call |-> call, err |-> err])]

Goto(w, where, err) ==
    /\ ppc' = [ppc EXCEPT ![w] = where]
    /\ perr' = [perr EXCEPT ![w] = IF where = "done" THEN err ELSE ErrNone]

\* ProcessMessage is entered: a nil context or a nil message is refused at once
Begin(w, ctx, m) ==
    /\ nCalls' = [nCalls EXCEPT ![w] = nCalls[w] + 1]
    /\ msg' = [msg EXCEPT ![w] = m]
    /\ msg0' = [msg0 EXCEPT ![w] = m]
    /\ analysis' = [analysis EXCEPT ![w] = NoAnalysis]
    /\ trace' = [trace EXCEPT ![w] = <<>>]
    /\ base' = [base EXCEPT ![w] = [stored |-> DocumentsOf(m.id),
                                    replies |-> RepliesTo(m.id)]]
    /\ IF ctx = "nil" THEN Goto(w, "done", "context cannot be nil")
       ELSE IF m = NoMessage THEN Goto(w, "done", "message cannot be nil")
       ELSE Goto(w, "analyze", ErrNone)
    /\ UNCHANGED <<stored, replies, clock>>

\* The caller's first call is made with a message it has just built
\* (NewMessageContent, NewMessage) or with nil; every later call is made with
\* the message of the call before (the same message is processed again).
ProcessMessage(w) ==
    /\ ppc[w] = "idle"
    /\ nCalls[w] < MaxCalls
    /\ \E ctx \in {"nil", "ctx"} :
         \/ /\ nCalls[w] = 0
            /\ \E sender \in SenderInputs, text \in Texts, mt \in TypeInputs,
                  c \in CategoryInputs, refs \in ReferenceInputs :
                 LET content == NewMessageContent(text)
                     m == NewMessage(nextID + 1, nextID, sender, content.text, mt,
                                     c, refs, clock)
                 IN /\ content.err = ErrNone
                    /\ m.err = ErrNone
                    /\ Begin(w, ctx, m)
                    /\ nextID' = nextID + 2
         \/ /\ nCalls[w] = 0
            /\ Begin(w, ctx, NoMessage)
            /\ UNCHANGED nextID
         \/ /\ nCalls[w] > 0
            /\ Begin(w, ctx, msg[w])
            /\ UNCHANGED nextID
    /\ UNCHANGED <<threadMap, readers, writer, messageCh, ctxDone, pc, ev, tid,
                   domainMsg, nEvents, resolved, delivered, consumer,
                   domainVars>>

\* analyzeMessage: s.aiAgent.AnalyzeMessage
AnalyzeMessage(w) ==
    /\ ppc[w] = "analyze"
    /\ \/ /\ Log(w, "AnalyzeMessage", "failed")
          /\ Goto(w, AfterAnalyze("failed"), "failed to analyze message")
          /\ UNCHANGED analysis
       \/ \E a \in AnalysisResults :
            /\ Log(w, "AnalyzeMessage", ErrNone)
            /\ analysis' = [analysis EXCEPT ![w] = a]
            /\ Goto(w, AfterAnalyze(ErrNone), ErrNone)
    /\ UNCHANGED <<msg, msg0, base, stored, replies, nCalls, clock, slackVars,
                   domainVars>>

\* updateMessageWithAnalysis, then the test of msg.HasReferences()
UpdateMessageWithAnalysis(w) ==
    /\ ppc[w] = "merge"
    /\ Log(w, "updateMessageWithAnalysis", ErrNone)
    /\ LET m == AddReferences(UpdateCategory(msg[w], analysis[w].category),
                              analysis[w].references)
       IN /\ msg' = [msg EXCEPT ![w] = m]
          /\ Goto(w, AfterMerge(m), ErrNone)
    /\ UNCHANGED <<msg0, analysis, base, stored, replies, nCalls, clock, slackVars,
                   domainVars>>

\* detectAndAddReferences: s.aiAgent.DetectReferences
DetectReferences(w) ==
    /\ ppc[w] = "detect"
    /\ \/ /\ Log(w, "DetectReferences", "failed")
          /\ Goto(w, AfterDetect("failed"), "failed to detect references")
          /\ UNCHANGED msg
       \/ \E refs \in DetectedReferences :
            /\ Log(w, "DetectReferences", ErrNone)
            /\ msg' = [msg EXCEPT ![w] = AddReferences(msg[w], refs)]
            /\ Goto(w, AfterDetect(ErrNone), ErrNone)
    /\ UNCHANGED <<msg0, analysis, base, stored, replies, nCalls, clock, slackVars,
                   domainVars>>

\* the handler is looked up and called
Route(w) ==
    /\ ppc[w] = "route"
    /\ Log(w, "Handle", ErrNone)
    /\ Goto(w, AfterRoute(HandlerFor(analysis[w].messageType), analysis[w]), ErrNone)
    /\ UNCHANGED <<msg, msg0, analysis, base, stored, replies, nCalls, clock,
                   slackVars,
                   domainVars>>

\* CreateDocumentation: s.aiAgent.GenerateDocumentation
GenerateDocumentation(w) ==
    /\ ppc[w] = "generate"
    /\ \E err \in Outcomes :
         /\ Log(w, "GenerateDocumentation", err)
         /\ Goto(w, AfterGenerate(err), "failed to generate documentation")
    /\ UNCHANGED <<msg, msg0, analysis, base, stored, replies, nCalls, clock,
                   slackVars,
                   domainVars>>

\* CreateDocumentation: generatePath reads the clock, s.docStore.StoreDocument
StoreDocument(w) ==
    /\ ppc[w] = "store"
    /\ \E err \in Outcomes, now \in clock .. MaxClock :
         /\ Log(w, "StoreDocument", err)
         /\ clock' = now
         /\ Goto(w, AfterStore(err), "failed to store documentation")
         /\ stored' = IF err = ErrNone
                      THEN StoreDocumentWrite(stored, Document(msg[w], now))
                      ELSE stored
    /\ UNCHANGED <<msg, msg0, analysis, base, replies, nCalls, slackVars,
                   domainVars>>

\* h.chatProvider.ReplyToMessage, whose error the handler returns
ReplyToMessage(w) ==
    /\ ppc[w] = "reply"
    /\ \E err \in Outcomes :
         /\ Log(w, "ReplyToMessage", err)
         /\ Goto(w, "done", IF err = ErrNone THEN ErrNone
                            ELSE "failed to reply to message")
         /\ replies' = IF err = ErrNone
                       THEN Append(replies,
                                   ReplyText(HandlerFor(analysis[w].messageType),
                                             msg[w], analysis[w]))
                       ELSE replies
    /\ UNCHANGED <<msg, msg0, analysis, base, stored, nCalls, clock, slackVars,
                   domainVars>>

\* ProcessMessage has returned; its caller goes on
Finish(w) ==
    /\ ppc[w] = "done"
    /\ ppc' = [ppc EXCEPT ![w] = "idle"]
    /\ perr' = [perr EXCEPT ![w] = ErrNone]
    /\ analysis' = [analysis EXCEPT ![w] = NoAnalysis]
    /\ trace' = [trace EXCEPT ![w] = <<>>]
    /\ msg0' = [msg0 EXCEPT ![w] = msg[w]]
    /\ base' = [base EXCEPT ![w] = [stored |-> DocumentsOf(msg[w].id),
                                    replies |-> RepliesTo(msg[w].id)]]
    /\ UNCHANGED <<msg, stored, replies, nCalls, clock, slackVars,
                   domainVars>>

\* ======================================================== domain objects ==
\* what callers hand to the constructors and methods of the domain package
DomainSenders == {"", "alice"}
DomainTexts == {<<>>, <<" ">>, <<" ", "a", " ">>}
DomainTypes == {MessageTypeIdea, MessageTypeInformation, "bogus"}
DomainCategories == validCategories \cup {"", "bogus"}
DomainReferences == {NilRef, "doc:b"}
Confidences ==
    UNION {(c - ScoreMargin) .. (c + ScoreMargin) :
             c \in {MinConfidence, HighConfidence, MaxConfidence}}

NoCall ==
    [name |-> "", messageType |-> "", category |-> "", text |-> <<>>,
     ref |-> NilRef, confidence |-> 0, err |-> ErrNone, before |-> NoMessage,
     result |-> NoAnalysis]

DomainInit ==
    /\ object = NoMessage
    /\ lastCall = NoCall

\* content, err := NewMessageContent(text); msg, err := NewMessage(..., content, ...)
CallNewMessage ==
    /\ \E sender \in DomainSenders, text \in DomainTexts, mt \in DomainTypes,
          c \in {CategoryOther, "bogus"} :
         LET content == NewMessageContent(text)
             m == NewMessage(1, 1, sender, content.text, mt, c, <<>>, 0)
         IN /\ object' = IF m.err = ErrNone THEN m ELSE NoMessage
            /\ lastCall' = [NoCall EXCEPT !.name = "NewMessage",
                                          !.messageType = mt, !.category = c,
                                          !.text = text, !.err = m.err,
                                          !.before = object]
    /\ UNCHANGED <<slackVars, botVars, projectVars, versionVars, contentVars>>

\* msg.UpdateCategory(c)
CallUpdateCategory ==
    /\ object # NoMessage
    /\ \E c \in DomainCategories :
         /\ object' = UpdateCategory(object, c)
         /\ lastCall' = [NoCall EXCEPT !.name = "UpdateCategory", !.category = c,
                                       !.before = object]
    /\ UNCHANGED <<slackVars, botVars, projectVars, versionVars, contentVars>>

\* msg.AddReference(ref)
CallAddReference ==
    /\ object # NoMessage
    /\ Len(object.references) < MaxRefs
    /\ \E ref \in DomainReferences :
         /\ object' = AddReference(object, ref)
         /\ lastCall' = [NoCall EXCEPT !.name = "AddReference", !.ref = ref,
                                       !.before = object]
    /\ UNCHANGED <<slackVars, botVars, projectVars, versionVars, contentVars>>

\* result, err := NewMessageAnalysisResult(t, c, nil, confidence, nil)
CallNewMessageAnalysisResult ==
    /\ \E t \in {MessageTypeUnknown, "bogus"}, c \in OracleCategories,
          confidence \in Confidences :
         lastCall' = [NoCall EXCEPT
                        !.name = "NewMessageAnalysisResult",
                        !.messageType = t, !.category = c,
                        !.confidence = confidence,
                        !.result = NewMessageAnalysisResult(t, c, <<>>, confidence, <<>>),
                        !.err = NewMessageAnalysisResult(t, c, <<>>, confidence, <<>>).err]
    /\ UNCHANGED <<object, slackVars, botVars, projectVars, versionVars,
                   contentVars>>

\* =============================================================== Project ==
ErrEmptyMilestone == "milestone name cannot be empty"
ErrDuplicateMilestone == "milestone with this name already exists"

\* unicode.ToLower on the letters used here
Lower(ch) ==
    CASE ch = "A" -> "a"
      [] ch = "B" -> "b"
      [] OTHER -> ch

EqualExact(a, b) == a = b

\* strings.EqualFold
EqualFold(a, b) ==
    /\ Len(a) = Len(b)
    /\ \A i \in DOMAIN a : Lower(a[i]) = Lower(b[i])

MilestoneNames ==
    {<<>>, <<" ">>, <<"a">>, <<" ", "A">>, <<"a", " ">>, <<"b">>, <<"B">>,
     <<"a", "b">>, <<"A", "B", " ">>}
Deadlines == {1}

NoMilestoneCall == [name |-> <<>>, made |-> FALSE, err |-> ErrNone, before |-> <<>>]

ProjectInit ==
    /\ milestones = <<>>
    /\ milestoneCall = NoMilestoneCall

\* p.AddMilestone(name, deadline)
AddMilestone ==
    /\ \E name \in MilestoneNames, deadline \in Deadlines :
         LET n == TrimSpace(name)
             err == IF n = <<>> THEN ErrEmptyMilestone
                    ELSE IF \E i \in DOMAIN milestones :
                              EqualFold(milestones[i].name, n)
                    THEN ErrDuplicateMilestone
                    ELSE ErrNone
         IN /\ milestones' = IF err = ErrNone
                             THEN Append(milestones,
                                         [name |-> n, deadline |-> deadline])
                             ELSE milestones
            /\ milestoneCall' = [name |-> name, made |-> TRUE, err |-> err,
                                 before |-> milestones]
    /\ UNCHANGED <<slackVars, botVars, messageVars, versionVars, contentVars>>

\* ======================================================= DocumentVersion ==
ErrInvalidTimestamp == "invalid timestamp"

MaxUint == 2 ^ UintBits - 1
Uints == 0 .. MaxUint
ZeroTime == 0                          \* the zero time.Time
Times == (ZeroTime + 1) .. (MaxClock + 1)   \* what time.Now() can return

NoVersion == [err |-> ErrNone, version |-> 0, timestamp |-> ZeroTime]

NewDocumentVersion(v, timestamp) ==
    IF timestamp = ZeroTime
    THEN [NoVersion EXCEPT !.err = ErrInvalidTimestamp]
    ELSE [err |-> ErrNone, version |-> v, timestamp |-> timestamp]

\* dv.IsNewer(o), both non-nil
IsNewer(dv, o) ==
    IF dv.version # o.version
    THEN dv.version > o.version
    ELSE dv.timestamp > o.timestamp

\* dv.Increment(): dv.version + 1 in unsigned machine arithmetic
Increment(dv, now) ==
    [err |-> ErrNone, version |-> (dv.version + 1) % (MaxUint + 1),
     timestamp |-> now]

NoVersionCall == [name |-> "", receiver |-> NoVersion]

VersionInit ==
    /\ version = NoVersion
    /\ other = NoVersion
    /\ versionCall = NoVersionCall

\* dv, err := NewDocumentVersion(v, timestamp), kept as the first or the second
CallNewDocumentVersion ==
    /\ \E v \in Uints, timestamp \in {ZeroTime} \cup Times, first \in BOOLEAN :
         LET dv == NewDocumentVersion(v, timestamp)
             kept == IF dv.err = ErrNone THEN dv ELSE NoVersion
         IN
         /\ version' = IF first THEN kept ELSE version
         /\ other' = IF first THEN other ELSE kept
         /\ versionCall' = [name |-> "NewDocumentVersion", receiver |-> NoVersion]
    /\ UNCHANGED <<slackVars, botVars, messageVars, projectVars, contentVars>>

\* o := dv.Increment()
CallIncrement ==
    /\ version # NoVersion
    /\ \E now \in Times :
         /\ other' = Increment(version, now)
         /\ versionCall' = [name |-> "Increment", receiver |-> version]
    /\ UNCHANGED <<version, slackVars, botVars, messageVars, projectVars,
                   contentVars>>

\* ================================================== MessageContent JSON ==
ErrInvalidJSON == "invalid JSON format"

\* JSON text is a sequence of tokens: the opening and closing of the object
\* and, for each character of the string, its JSON encoding.
JSONOpen == "{\"text\":\""
JSONClose == "\"}"

\* encoding/json: a quote and a backslash are escaped
EscapeChar(ch) ==
    CASE ch = "\"" -> "\\\""
      [] ch = "\\" -> "\\\\"
      [] OTHER -> ch

UnescapeChar(tok) ==
    CASE tok = "\\\"" -> "\""
      [] tok = "\\\\" -> "\\"
      [] OTHER -> tok

\* mc.MarshalJSON()
MarshalJSON(text) ==
    <<JSONOpen>> \o [i \in 1 .. Len(text) |-> EscapeChar(text[i])] \o <<JSONClose>>

\* mc.UnmarshalJSON(data): json.Unmarshal, then NewMessageContent
UnmarshalJSON(data) ==
    IF Len(data) < 2 \/ data[1] # JSONOpen \/ data[Len(data)] # JSONClose
    THEN [err |-> ErrInvalidJSON, text |-> NilContent]
    ELSE NewMessageContent([i \in 1 .. (Len(data) - 2) |-> UnescapeChar(data[i + 1])])

\* a text one byte longer than MaxContentLength, with a space where the cut falls
LongText ==
    [i \in 1 .. (MaxContentLength + 1) |->
       IF i = MaxContentLength THEN " " ELSE "a"]

ContentTexts ==
    {<<" ">>, <<" ", "a">>, <<"a", "\"", "b">>, <<"a", "\\", " ">>,
     <<"a", " ", "b">>, LongText}

NoEncoded == [of |-> NilContent, json |-> <<>>]
NoDecoded == [made |-> FALSE, of |-> NilContent, err |-> ErrNone, text |-> NilContent]

ContentInit ==
    /\ mc = NilContent
    /\ encoded = NoEncoded
    /\ decoded = NoDecoded

\* c, err := NewMessageContent(text)
CallNewMessageContent ==
    /\ \E text \in ContentTexts : mc' = NewMessageContent(text).text
    /\ UNCHANGED <<encoded, decoded, slackVars, botVars, messageVars, projectVars,
                   versionVars>>

\* data, err := c.MarshalJSON()
CallMarshalJSON ==
    /\ mc # NilContent
    /\ encoded' = [of |-> mc, json |-> MarshalJSON(mc)]
    /\ UNCHANGED <<mc, decoded, slackVars, botVars, messageVars, projectVars,
                   versionVars>>

\* err := d.UnmarshalJSON(data)
CallUnmarshalJSON ==
    /\ encoded # NoEncoded
    /\ LET d == UnmarshalJSON(encoded.json)
       IN decoded' = [made |-> TRUE, of |-> encoded.of, err |-> d.err,
                      text |-> d.text]
    /\ UNCHANGED <<mc, encoded, slackVars, botVars, messageVars, projectVars,
                   versionVars>>

\* ======================================================== specifications ==
Init == SlackInit /\ BotInit /\ DomainInit /\ ProjectInit /\ VersionInit /\ ContentInit

\* the steps of the handleEvents goroutines in H
HandlersNext(H) ==
    \/ \E h \in H : Receive(h)
    \/ \E h \in H : RLock(h)
    \/ \E h \in H : RUnlock(h)
    \/ \E h \in H : Lock(h)
    \/ \E h \in H : Register(h)
    \/ \E h \in H : CreateMessage(h)
    \/ \E h \in H : Send(h)

\* ListenForMessages called once: one handleEvents goroutine resolves and
\* queues the events, one after the other
Next == HandlersNext({"h1"})

Spec == Init /\ [][Next]_vars

\* ListenForMessages called twice: two goroutines share the client
ConcurrentNext == HandlersNext(Handlers)

ConcurrentSpec == Init /\ [][ConcurrentNext]_vars

\* one goroutine, the loop reading the channel and the cancellation of the context
ListenNext ==
    \/ Next
    \/ Stop("h1")
    \/ Cancel
    \/ Consume
    \/ ConsumerStop

ListenSpec == Init /\ [][ListenNext]_vars

\* the same goroutine and reading loop under a burst of root messages
HandlerStep(h) ==
    \/ ReceiveBurst(h)
    \/ RLock(h)
    \/ RUnlock(h)
    \/ Lock(h)
    \/ Register(h)
    \/ CreateMessage(h)
    \/ Send(h)
    \/ Stop(h)

BurstNext ==
    \/ HandlerStep("h1")
    \/ Cancel
    \/ Consume
    \/ ConsumerStop

BurstSpec == Init /\ [][BurstNext]_vars

\* one flow of control calling ProcessMessage, one call after the other
ProcessNext ==
    \/ ProcessMessage("w1")
    \/ AnalyzeMessage("w1")
    \/ UpdateMessageWithAnalysis("w1")
    \/ DetectReferences("w1")
    \/ Route("w1")
    \/ GenerateDocumentation("w1")
    \/ StoreDocument("w1")
    \/ ReplyToMessage("w1")
    \/ Finish("w1")

ProcessSpec == Init /\ [][ProcessNext]_vars

\* Two flows of control, each calling ProcessMessage once, on messages of
\* their own; the steps of the two calls interleave in every way. The callers
\* pass ideas without references, and the agent answers with confident,
\* tagged results of two types.
ParallelMessage(m) ==
    m = NoMessage \/ (m.messageType = MessageTypeIdea /\ m.references = <<>>)

ParallelResults ==
    {a \in AnalysisResults :
       /\ a.messageType \in {MessageTypeIdea, MessageTypeUnknown}
       /\ a.confidenceScore = HighConfidence
       /\ a.suggestedTags # <<>>}

ProcessMessageOnce(w) ==
    /\ nCalls[w] = 0
    /\ ProcessMessage(w)
    /\ ParallelMessage(msg'[w])

AnalyzeMessageOnce(w) ==
    /\ AnalyzeMessage(w)
    /\ analysis'[w] \in ParallelResults \cup {NoAnalysis}

WorkerStep(w) ==
    \/ ProcessMessageOnce(w)
    \/ AnalyzeMessageOnce(w)
    \/ UpdateMessageWithAnalysis(w)
    \/ DetectReferences(w)
    \/ Route(w)
    \/ GenerateDocumentation(w)
    \/ StoreDocument(w)
    \/ ReplyToMessage(w)
    \/ Finish(w)

ParallelNext == \E w \in Workers : WorkerStep(w)

ParallelSpec == Init /\ [][ParallelNext]_vars

\* a caller building and changing domain objects
DomainNext ==
    \/ CallNewMessage
    \/ CallUpdateCategory
    \/ CallAddReference
    \/ CallNewMessageAnalysisResult

DomainSpec == Init /\ [][DomainNext]_vars

\* a caller adding milestones to one Project
ProjectNext == AddMilestone

ProjectSpec == Init /\ [][ProjectNext]_vars

\* a caller building, incrementing and comparing DocumentVersions
VersionNext ==
    \/ CallNewDocumentVersion
    \/ CallIncrement

VersionSpec == Init /\ [][VersionNext]_vars

\* a caller building a MessageContent and taking it through JSON
ContentNext ==
    \/ CallNewMessageContent
    \/ CallMarshalJSON
    \/ CallUnmarshalJSON

ContentSpec == Init /\ [][ContentNext]_vars

\* ================================================================ claims ==
\* ---- thread correlation (Spec)
RootEvents == {e \in resolved : e.threadTS = NoMarker}

\* the conversation an event belongs to: its parent marker, or its own
Conversation(e) == IF e.threadTS # NoMarker THEN e.threadTS ELSE e.ts

\* C1: two root events that carry the same conversation marker are given the
\* same ThreadId, and two root events with different markers are given
\* different ThreadIds.
C1_SameMarkerSameThread ==
    \A a, b \in RootEvents : a.ts = b.ts <=> a.id = b.id

\* C2: when every root event arrives once, all events of one conversation (the
\* root with marker r and the replies whose parent marker is r) are given the
\* same ThreadId, whatever the order they arrive in.
C2_ConversationSharesThread ==
    (\A a, b \in RootEvents : a.ts = b.ts => a = b)
        => \A a, b \in resolved : Conversation(a) = Conversation(b) => a.id = b.id

\* read locks held by calls that are about to release them
ReleasingReaders == Cardinality({h \in Handlers : pc[h] = "runlock"})

\* C3: thread resolution always completes: no call waits for the write lock of
\* the thread map while a read lock is held that no call will release.
C3_ResolutionCompletes ==
    \A h \in Handlers : pc[h] = "lock" => readers = ReleasingReaders

\* C4: a reply (marker m, parent p) whose parent is registered is given the
\* ThreadId registered for p, and when its call returns m is registered with
\* that ThreadId too.
C4_ReplyRegistersOwnMarker ==
    [][\A h \in Handlers :
         /\ (pc[h] = "rlock" /\ pc'[h] = "content")
                => tid'[h] = threadMap[ev[h].threadTS]
         /\ (pc[h] \in {"content", "send"} /\ ev[h].threadTS # NoMarker
             /\ pc'[h] = "idle")
                => threadMap'[ev[h].ts] = tid[h]]_vars

\* C5: a reply whose parent is not registered gets a fresh ThreadId, registered
\* under the parent marker, and (its sender and text being valid) is put on
\* the message queue carrying that ThreadId before its call returns.
C5_OrphanReplyEmitted ==
    [][\A h \in Handlers :
         (/\ pc[h] = "write"
          /\ ev[h].threadTS # NoMarker
          /\ ev[h].name # ""
          /\ TrimSpace(ev[h].text) # <<>>
          /\ pc'[h] = "idle")
            => /\ threadMap'[ev[h].threadTS] = tid[h]
               /\ Len(messageCh') = Len(messageCh) + 1
               /\ messageCh'[Len(messageCh')].threadID = tid[h]]_vars

\* ---- ProcessMessage (ProcessSpec)
Calls(w, call) == {i \in DOMAIN trace[w] : trace[w][i].call = call}

Called(w, call) == Calls(w, call) # {}

Failed(w, call) == \E i \in Calls(w, call) : trace[w][i].err # ErrNone

NonNil(refs) == SelectSeq(refs, LAMBDA r : r # NilRef)

\* the references of the message once the analysis is merged into it
MergedReferences(w) == msg0[w].references \o NonNil(analysis[w].references)

Merged(w) == Called(w, "updateMessageWithAnalysis")

StepAt(w, i) == trace[w][i].call

\* C6: the steps of one call run in the order analyze, apply analysis, detect
\* references (only when the message has none), route; none runs twice, and
\* a call that returns without an analysis or detection failure (and was not
\* refused for a nil argument) has run analyze, apply and route.
C6_StepOrder ==
    \A w \in Workers :
      LET n == Len(trace[w]) IN
      /\ n >= 1 => StepAt(w, 1) = "AnalyzeMessage"
      /\ n >= 2 => StepAt(w, 2) = "updateMessageWithAnalysis"
      /\ n >= 3 => /\ StepAt(w, 3) \in {"DetectReferences", "Handle"}
                   /\ StepAt(w, 3) = "DetectReferences"
                        => MergedReferences(w) = <<>>
      /\ (n >= 4 /\ StepAt(w, 3) = "DetectReferences") => StepAt(w, 4) = "Handle"
      /\ \A call \in {"AnalyzeMessage", "updateMessageWithAnalysis",
                      "DetectReferences", "Handle"} :
           Cardinality(Calls(w, call)) <= 1
      /\ (/\ ppc[w] = "done"
          /\ perr[w] \notin {"context cannot be nil", "message cannot be nil",
                             "failed to analyze message",
                             "failed to detect references"})
            => /\ Called(w, "AnalyzeMessage")
               /\ Called(w, "updateMessageWithAnalysis")
               /\ Called(w, "Handle")

C6_Witness ==
    /\ ppc["w1"] = "done"
    /\ perr["w1"] = ErrNone
    /\ Len(trace["w1"]) = 7
    /\ Called("w1", "DetectReferences")

\* C7: when AnalyzeMessage fails the call returns an error and nothing else
\* happens: the message is as it was, nothing else is called, no document is
\* stored and no reply is sent.
C7_AnalysisFailureAborts ==
    \A w \in Workers :
      Failed(w, "AnalyzeMessage")
        => /\ ppc[w] = "done"
           /\ perr[w] = "failed to analyze message"
           /\ Len(trace[w]) = 1
           /\ msg[w] = msg0[w]
           /\ DocumentsOf(msg[w].id) = base[w].stored
           /\ RepliesTo(msg[w].id) = base[w].replies

C7_Witness ==
    /\ Failed("w1", "AnalyzeMessage")
    /\ nCalls["w1"] = 2
    /\ base["w1"].stored = 1
    /\ HasReferences(msg["w1"])

\* C8: DetectReferences is called if and only if the message has no reference
\* once the analysis is merged; a message that has one keeps its list as
\* merged, and only the detection step adds to a list the merge left empty.
C8_DetectIffNoReferences ==
    \A w \in Workers :
      Merged(w)
        => /\ (ppc[w] = "detect" \/ Called(w, "DetectReferences"))
                <=> MergedReferences(w) = <<>>
           /\ ~Called(w, "DetectReferences")
                => msg[w].references = MergedReferences(w)

C8_Witness ==
    /\ ppc["w1"] = "done"
    /\ Called("w1", "DetectReferences")
    /\ msg["w1"].references = <<"doc:c">>

\* C9: when DetectReferences fails the call returns that failure and stops
\* before routing: no handler runs, nothing is generated or stored, no reply
\* is sent.
C9_DetectFailureAborts ==
    \A w \in Workers :
      Failed(w, "DetectReferences")
        => /\ ppc[w] = "done"
           /\ perr[w] = "failed to detect references"
           /\ StepAt(w, Len(trace[w])) = "DetectReferences"
           /\ ~Called(w, "Handle")
           /\ ~Called(w, "GenerateDocumentation")
           /\ ~Called(w, "StoreDocument")
           /\ ~Called(w, "ReplyToMessage")
           /\ DocumentsOf(msg[w].id) = base[w].stored
           /\ RepliesTo(msg[w].id) = base[w].replies

C9_Witness ==
    /\ Failed("w1", "DetectReferences")
    /\ ppc["w1"] = "done"
    /\ analysis["w1"].messageType = MessageTypeDecision

\* C10: one call makes at most one StoreDocument call and at most one
\* ReplyToMessage call, so it adds at most one document and one reply.
C10_AtMostOneStoreAndReply ==
    \A w \in Workers :
      /\ Cardinality(Calls(w, "StoreDocument")) <= 1
      /\ Cardinality(Calls(w, "ReplyToMessage")) <= 1
      /\ DocumentsOf(msg[w].id) <= base[w].stored + 1
      /\ RepliesTo(msg[w].id) <= base[w].replies + 1

C10_Witness ==
    /\ ppc["w1"] = "done"
    /\ nCalls["w1"] = 2
    /\ base["w1"].stored = 1
    /\ DocumentsOf(msg["w1"].id) = 2
    /\ RepliesTo(msg["w1"].id) = base["w1"].replies + 1

\* ---- handlers (ProcessSpec)
DocumentingTypes == {MessageTypeIdea, MessageTypeDecision, MessageTypeStatus}

Routed(w) == Called(w, "Handle")

Succeeded(w, call) == \E i \in Calls(w, call) : trace[w][i].err = ErrNone

Before(w, first, second) ==
    \A i \in Calls(w, first), j \in Calls(w, second) : i < j

LastStored == stored[Len(stored)]

LastReply == replies[Len(replies)]

\* C11: for a message routed as idea, decision or status, documentation is
\* generated, then stored, then the reply is sent; a failed generation writes
\* nothing to the store; a failed generation or store makes the call return an
\* error with no reply sent.
C11_DocumentThenReply ==
    \A w \in Workers :
      (Routed(w) /\ analysis[w].messageType \in DocumentingTypes)
        => /\ Called(w, "StoreDocument")
                => /\ Succeeded(w, "GenerateDocumentation")
                   /\ Before(w, "GenerateDocumentation", "StoreDocument")
           /\ Called(w, "ReplyToMessage")
                => /\ Succeeded(w, "StoreDocument")
                   /\ Before(w, "StoreDocument", "ReplyToMessage")
           /\ Failed(w, "GenerateDocumentation")
                => /\ ~Called(w, "StoreDocument")
                   /\ DocumentsOf(msg[w].id) = base[w].stored
           /\ (Failed(w, "GenerateDocumentation") \/ Failed(w, "StoreDocument"))
                => /\ ppc[w] = "done"
                   /\ perr[w] # ErrNone
                   /\ ~Called(w, "ReplyToMessage")
                   /\ RepliesTo(msg[w].id) = base[w].replies
           /\ (ppc[w] = "done" /\ perr[w] = ErrNone)
                => /\ Succeeded(w, "GenerateDocumentation")
                   /\ Succeeded(w, "StoreDocument")
                   /\ Succeeded(w, "ReplyToMessage")

C11_Witness ==
    /\ ppc["w1"] = "done"
    /\ analysis["w1"].messageType = MessageTypeStatus
    /\ Failed("w1", "StoreDocument")
    /\ perr["w1"] = "failed to store documentation"

\* C12: for a message classified as unknown nothing is generated or stored;
\* one reply, listing every suggested tag, is sent when the confidence is at
\* least 0.8 and there are suggested tags, and none is sent otherwise.
C12_UnknownSuggestsTags ==
    \A w \in Workers :
      (/\ Routed(w)
       /\ analysis[w].messageType = MessageTypeUnknown
       /\ ppc[w] = "done")
        => /\ ~Called(w, "GenerateDocumentation")
           /\ ~Called(w, "StoreDocument")
           /\ DocumentsOf(msg[w].id) = base[w].stored
           /\ IF /\ analysis[w].confidenceScore >= HighConfidence
                 /\ analysis[w].suggestedTags # <<>>
              THEN /\ Cardinality(Calls(w, "ReplyToMessage")) = 1
                   /\ Succeeded(w, "ReplyToMessage")
                        => /\ RepliesTo(msg[w].id) = base[w].replies + 1
                           /\ LastReply.to = msg[w].id
                           /\ LastReply.tags = analysis[w].suggestedTags
              ELSE /\ ~Called(w, "ReplyToMessage")
                   /\ RepliesTo(msg[w].id) = base[w].replies

C12_Witness ==
    /\ ppc["w1"] = "done"
    /\ analysis["w1"].messageType = MessageTypeUnknown
    /\ analysis["w1"].confidenceScore = HighConfidence
    /\ Succeeded("w1", "ReplyToMessage")
    /\ LastReply.tags = <<"t1", "t2">>

\* C13: for a message whose resolved type is unknown, suggested tags are
\* surfaced to the user only when the confidence is below 0.8.
C13_TagsOnlyAtLowConfidence ==
    \A w \in Workers :
      (/\ analysis[w].messageType = MessageTypeUnknown
       /\ Succeeded(w, "ReplyToMessage")
       /\ LastReply.tags # <<>>)
        => analysis[w].confidenceScore < HighConfidence

\* C14: a ProcessMessage call that returns an error has sent no reply and has
\* stored no document, whichever step failed.
C14_FailedCallLeavesNothing ==
    \A w \in Workers :
      (ppc[w] = "done" /\ perr[w] # ErrNone)
        => /\ DocumentsOf(msg[w].id) = base[w].stored
           /\ RepliesTo(msg[w].id) = base[w].replies

\* C15: for a message (constructed with any declared type) that the oracle
\* classifies as idea, decision or status with category C, one document is
\* stored, keyed by the classified type and category: path docs/C/T-<timestamp>
\* and metadata type T.
C15_DocumentKeyedByClassifiedType ==
    \A w \in Workers :
      (/\ ppc[w] = "done"
       /\ perr[w] = ErrNone
       /\ analysis[w].messageType \in DocumentingTypes
       /\ msg0[w].messageType \in validMessageTypes)
        => /\ DocumentsOf(msg[w].id) = base[w].stored + 1
           /\ LastStored.of = msg[w].id
           /\ LastStored.type = analysis[w].messageType
           /\ LastStored.path.type = analysis[w].messageType
           /\ LastStored.category = analysis[w].category
           /\ LastStored.path.dir = analysis[w].category

\* C16: the reply for a documented message is chosen by the classified type,
\* names the category the message has after the merge, and carries a
\* reference count if and only if the message has references, the count being
\* their number.
C16_ReplyByClassifiedType ==
    \A w \in Workers :
      (/\ ppc[w] = "done"
       /\ analysis[w].messageType \in DocumentingTypes
       /\ Succeeded(w, "ReplyToMessage"))
        => /\ RepliesTo(msg[w].id) = base[w].replies + 1
           /\ LastReply.to = msg[w].id
           /\ LastReply.template =
                CASE analysis[w].messageType = MessageTypeIdea
                       -> "Captured idea in category"
                  [] analysis[w].messageType = MessageTypeDecision
                       -> "Recorded decision in category"
                  [] analysis[w].messageType = MessageTypeStatus
                       -> "Logged status update in category"
           /\ LastReply.category = analysis[w].category
           /\ LastReply.category = msg[w].category
           /\ LastReply.tags = <<>>
           /\ (LastReply.linked > 0) <=> (msg[w].references # <<>>)
           /\ LastReply.linked = Len(msg[w].references)

C16_Witness ==
    /\ ppc["w1"] = "done"
    /\ analysis["w1"].messageType = MessageTypeStatus
    /\ Succeeded("w1", "ReplyToMessage")
    /\ msg0["w1"].category = "invalid"
    /\ LastReply.category = CategoryOperations
    /\ LastReply.linked = 1

\* C19: routing is not idempotent: a second ProcessMessage call on a message
\* whose first call stored a document and sent a reply, classified as idea,
\* decision or status and with every collaborator succeeding again, leaves two
\* documents and two replies for the message.
C19_SecondRunDuplicates ==
    \A w \in Workers :
      (/\ nCalls[w] = 2
       /\ base[w] = [stored |-> 1, replies |-> 1]
       /\ ppc[w] = "done"
       /\ perr[w] = ErrNone
       /\ analysis[w].messageType \in DocumentingTypes)
        => /\ DocumentsOf(msg[w].id) = 2
           /\ RepliesTo(msg[w].id) = 2

C19_Witness ==
    /\ nCalls["w1"] = 2
    /\ ppc["w1"] = "done"
    /\ perr["w1"] = ErrNone
    /\ analysis["w1"].messageType = MessageTypeDecision
    /\ DocumentsOf(msg["w1"].id) = 2
    /\ RepliesTo(msg["w1"].id) = 2
    /\ stored[1].path = stored[2].path

\* ---- domain objects (DomainSpec)
RecognisedCategories ==
    {CategoryOperations, CategoryDevelopment, CategoryProduct,
     CategoryQualityAssurance, CategoryDataAnalysis, CategoryOther,
     CategoryUnknown}

\* C17: UpdateCategory sets the category of the message to the given value
\* when it is one of the seven recognised categories and leaves the message as
\* it was when it is not; nothing else of the message changes.
C17_UpdateCategoryFrame ==
    lastCall.name = "UpdateCategory"
      => object = IF lastCall.category \in RecognisedCategories
                  THEN [lastCall.before EXCEPT !.category = lastCall.category]
                  ELSE lastCall.before

C17_Witness ==
    /\ lastCall.name = "UpdateCategory"
    /\ lastCall.category = "bogus"
    /\ lastCall.before.category = CategoryProduct
    /\ object.category = CategoryProduct

\* C18: NewMessageAnalysisResult fails with ErrInvalidConfidenceScore for every
\* confidence below 0 or above 1, succeeds (type and category being valid) for
\* every confidence from 0 to 1, both included, and IsHighConfidence is true
\* exactly from 0.8 upwards.
C18_ConfidenceRange ==
    lastCall.name = "NewMessageAnalysisResult"
      => /\ (lastCall.confidence < MinConfidence
             \/ lastCall.confidence > MaxConfidence)
              => lastCall.err = ErrInvalidConfidenceScore
         /\ (/\ lastCall.confidence >= MinConfidence
             /\ lastCall.confidence <= MaxConfidence
             /\ lastCall.messageType \in validMessageTypes
             /\ lastCall.category \in RecognisedCategories)
              => /\ lastCall.err = ErrNone
                 /\ lastCall.result.confidenceScore = lastCall.confidence
                 /\ IsHighConfidence(lastCall.result)
                      <=> lastCall.confidence >= HighConfidence

C18_Witness ==
    /\ lastCall.name = "NewMessageAnalysisResult"
    /\ lastCall.confidence = MaxConfidence
    /\ lastCall.err = ErrNone
    /\ IsHighConfidence(lastCall.result)

\* C20: a Message, after NewMessage and any UpdateCategory and AddReference
\* calls, has a valid type, a valid category and content that is not empty
\* once trimmed; NewMessage fails for inputs that would break this.
C20_MessageInvariant ==
    /\ object # NoMessage
         => /\ MessageTypeIsValid(object.messageType)
            /\ object.category \in RecognisedCategories
            /\ TrimSpace(object.content) # <<>>
    /\ (/\ lastCall.name = "NewMessage"
        /\ \/ ~MessageTypeIsValid(lastCall.messageType)
           \/ lastCall.category \notin RecognisedCategories
           \/ TrimSpace(lastCall.text) = <<>>)
         => lastCall.err # ErrNone

\* ---- what ProcessMessage changes (ProcessSpec)
IsPrefix(s, t) == Len(s) <= Len(t) /\ SubSeq(t, 1, Len(s)) = s

\* C27: ProcessMessage changes only the category and the reference list of
\* its message: id, thread id, sender, content, type and timestamp stay as
\* they were, references are only appended, and no nil reference is added.
C27_OnlyCategoryAndReferences ==
    \A w \in Workers :
      /\ msg[w].id = msg0[w].id
      /\ msg[w].threadID = msg0[w].threadID
      /\ msg[w].sender = msg0[w].sender
      /\ msg[w].content = msg0[w].content
      /\ msg[w].messageType = msg0[w].messageType
      /\ msg[w].timestamp = msg0[w].timestamp
      /\ IsPrefix(msg0[w].references, msg[w].references)
      /\ \A i \in (Len(msg0[w].references) + 1) .. Len(msg[w].references) :
           msg[w].references[i] # NilRef

C27_Witness ==
    /\ ppc["w1"] = "done"
    /\ msg0["w1"].references = <<"doc:a">>
    /\ analysis["w1"].references = <<NilRef, "msg:b">>
    /\ msg["w1"].references = <<"doc:a", "msg:b">>
    /\ msg["w1"].category # msg0["w1"].category

\* C28: when reference detection fails the merge that ran before it is not
\* rolled back: as the error is returned the category of the message is the
\* category of the analysis and its reference list is still empty.
C28_MergeKeptOnDetectFailure ==
    \A w \in Workers :
      (Failed(w, "DetectReferences") /\ ppc[w] = "done")
        => /\ perr[w] = "failed to detect references"
           /\ msg[w].category = analysis[w].category
           /\ msg[w].references = <<>>

C28_Witness ==
    /\ Failed("w1", "DetectReferences")
    /\ ppc["w1"] = "done"
    /\ msg0["w1"].category = CategoryOther
    /\ msg["w1"].category = CategoryOperations

\* ---- the thread map and its lock (Spec)
AllReturned == \A h \in Handlers : pc[h] = "idle"

Registered(map) == {m \in Markers : map[m] # NoID}

\* C29: every call of processMessageEvent leaves the thread-map lock free when
\* it returns: with no call running, no read lock and no write lock is held.
C29_LockFreeOnReturn ==
    AllReturned => (readers = 0 /\ writer = NoHandler)

\* C30: entries of the thread map are never removed, and a call that returns
\* with nothing put on the message queue leaves no entry behind that a queued
\* message does not carry (with no reader of the queue, the queue holds every
\* message emitted so far).
C30_MapGrowsOnlyWithMessages ==
    [][/\ Registered(threadMap) \subseteq Registered(threadMap')
       /\ \A h \in Handlers :
            (pc[h] # "idle" /\ pc'[h] = "idle" /\ messageCh' = messageCh)
              => \A m \in Registered(threadMap') :
                   \E i \in DOMAIN messageCh' :
                     messageCh'[i].threadID = threadMap'[m]]_vars

\* ---- Project milestones (ProjectSpec)
Folded(name) == [i \in DOMAIN TrimSpace(name) |-> Lower(TrimSpace(name)[i])]

SameMilestoneName(a, b) == Folded(a) = Folded(b)

\* C24: after any sequence of AddMilestone calls no two milestones have names
\* equal ignoring case and surrounding whitespace and none has an empty name;
\* a call with an empty or duplicate name returns an error, and a call that
\* returns an error leaves the list as it was.
C24_MilestoneNamesUnique ==
    /\ \A i, j \in DOMAIN milestones :
         i # j => ~SameMilestoneName(milestones[i].name, milestones[j].name)
    /\ \A i \in DOMAIN milestones : TrimSpace(milestones[i].name) # <<>>
    /\ milestoneCall.made
         => /\ (\/ TrimSpace(milestoneCall.name) = <<>>
                \/ \E i \in DOMAIN milestoneCall.before :
                     SameMilestoneName(milestoneCall.before[i].name,
                                       milestoneCall.name))
                 <=> milestoneCall.err # ErrNone
            /\ milestoneCall.err # ErrNone => milestones = milestoneCall.before
            /\ milestoneCall.err = ErrNone
                 => Len(milestones) = Len(milestoneCall.before) + 1

C24_Witness ==
    /\ milestoneCall.made
    /\ milestoneCall.name = <<" ", "A">>
    /\ milestoneCall.err = ErrDuplicateMilestone
    /\ Len(milestones) = 2
    /\ milestones[1].name = <<"a">>

\* ---- DocumentVersion (VersionSpec)
\* C25: v.Increment() returns a version whose number is v.Version() + 1 and
\* which IsNewer than v, v itself unchanged, for every v up to the largest
\* unsigned value; IsNewer is never true in both directions nor of a version
\* against itself.
C25_IncrementIsNewer ==
    /\ versionCall.name = "Increment"
         => /\ other.version = versionCall.receiver.version + 1
            /\ IsNewer(other, versionCall.receiver)
            /\ version = versionCall.receiver
    /\ (version # NoVersion /\ other # NoVersion)
         => /\ ~(IsNewer(version, other) /\ IsNewer(other, version))
            /\ ~IsNewer(version, version)
            /\ ~IsNewer(other, other)

\* ---- MessageContent through JSON (ContentSpec)
\* C26: for every MessageContent c built by NewMessageContent, unmarshalling
\* the JSON c.MarshalJSON() produced succeeds and yields the text of c.
C26_JSONRoundTrip ==
    decoded.made => (decoded.err = ErrNone /\ decoded.text = decoded.of)

Carried == delivered \o messageCh

Local(w) == <<ppc[w], msg[w], msg0[w], analysis[w], perr[w], trace[w], nCalls[w]>>

\* the documents written for, and the replies sent to, the message id, in order
DocumentsFor(docs, id) == SelectSeq(docs, LAMBDA d : d.of = id)

RepliesFor(sent, id) == SelectSeq(sent, LAMBDA r : r.to = id)

\* C23: ProcessMessage calls running concurrently on distinct messages do not
\* interfere. A step of one call leaves everything of the other call as it
\* was: its position, its message (category and references), its analysis,
\* its error, and the documents written and replies sent for its message. So
\* each call's outcome is that of the same call running alone with the same
\* collaborator answers; the documents and the replies of a message carry the
\* category and references of that message only.
C23_NoInterference ==
    [][\A w \in Workers : \A v \in Workers \ {w} :
         Local(w)' # Local(w)
           => /\ Local(v)' = Local(v)
              /\ msg[v] # NoMessage
                   => /\ DocumentsFor(stored', msg[v].id)
                           = DocumentsFor(stored, msg[v].id)
                      /\ RepliesFor(replies', msg[v].id)
                           = RepliesFor(replies, msg[v].id)
              /\ (msg[w] # NoMessage /\ msg[v] # NoMessage)
                   => /\ msg[w].id # msg[v].id
                      /\ \A i \in DOMAIN DocumentsFor(stored', msg[w].id) :
                           LET d == DocumentsFor(stored', msg[w].id)[i]
                           IN /\ d.category = msg'[w].category
                              /\ d.references = msg'[w].references
                      /\ \A i \in DOMAIN RepliesFor(replies', msg[w].id) :
                           RepliesFor(replies', msg[w].id)[i].category
                             \in {"", msg'[w].category}]_vars

C23_Witness ==
    /\ ppc["w1"] = "reply"
    /\ ppc["w2"] = "done"
    /\ Len(stored) = 2
    /\ stored[1].of = msg["w2"].id
    /\ stored[2].of = msg["w1"].id
    /\ Len(replies) = 1
    /\ replies[1].to = msg["w2"].id
    /\ msg["w1"].references # msg["w2"].references

====
